---- MODULE Spec2Model ----
(***************************************************************************)
(* A model of nom-recursive (src/nom-recursive/src/lib.rs): the identity   *)
(* registry RecursiveIndexes, the thread-local RECURSIVE_STORAGE, the      *)
(* recursion flags RecursiveInfo and the HasRecursiveInfo /                *)
(* HasRecursiveType capabilities of a LocatedSpan cursor.                  *)
(*                                                                         *)
(* A u64 word is modelled as the set of the positions of its 1 bits        *)
(* (a subset of 0..63), and the bit operators of the code act on such sets.*)
(***************************************************************************)
EXTENDS Integers, Sequences, FiniteSets, TLC

VARIABLES
    flagWords,   \* RECURSIVE_FLAG_WORDS of the build (1, 2 or 4)
    storage,     \* RECURSIVE_STORAGE: one RecursiveIndexes per thread
    order,       \* per thread: the keys in the order of their first successful lookup
    firstRet,    \* per thread: the id the first successful lookup of a key returned
    lastCall,    \* the last call of RecursiveIndexes::get and what it returned
    free,        \* number of lookups made after the in-order registration phase
    info,        \* a RecursiveInfo held in a local variable (`let mut info`)
    span,        \* a LocatedSpan cursor: offset, fragment, extra
    sibling,     \* the clone of span a choice keeps for its next alternative
    pre,         \* info and span before the last operation on them
    op,          \* the last operation on info / span, with its argument
    nOps,        \* number of operations applied to info / span
    input,       \* the text being parsed
    stack,       \* the call stack of the parse: one frame per active parser function
    ret,         \* the result the last returned parser function handed to its caller
    status,      \* setup | running | returned | overflow
    events       \* what the guard has done so far in this parse

vars == <<flagWords, storage, order, firstRet, lastCall, free, info, span, sibling, pre, op, nOps,
          input, stack, ret, status, events>>

regVars == <<storage, order, firstRet, lastCall, free>>
flagVars == <<info, span, sibling, pre, op, nOps>>
guardVars == <<input, stack, ret, status, events>>

----------------------------------------------------------------------------
(* Program constants *)

\* the width of one flag word (u64): `id / 64`, `id % 64`, `RECURSIVE_FLAG_WORDS * 64`
WordBits == 64

\* the values RECURSIVE_FLAG_WORDS takes: default, feature tracer128, feature tracer256
FlagWordsConfigs == {1, 2, 4}

\* RECURSIVE_FLAG_WORDS * 64
Capacity == flagWords * WordBits

----------------------------------------------------------------------------
(* Bounds of the model *)

\* lookups made in any order once the in-order registration phase has ended
MaxFree == 2
\* how far from the next unregistered key a free lookup's key may lie
KeyWindow == 2
\* threads, each with its own thread-local storage
NumThreads == 2
\* keys the threads look up
NumThreadKeys == 2

----------------------------------------------------------------------------
(* u64 as the set of its 1 bits *)

Bits == 0 .. (WordBits - 1)

\* 1u64 << n, for n < 64
Shl1(n) == {n}
\* x >> n
Shr(x, n) == {b - n : b \in {c \in x : c >= n}}
\* x & y
BitAnd(x, y) == x \cap y
\* x | y
BitOr(x, y) == x \cup y
\* !x
BitNot(x) == Bits \ x
\* the u64 values 0 and 1
Zero64 == {}
One64 == {0}

----------------------------------------------------------------------------
(* RecursiveInfo<T>: flag: [u64; RECURSIVE_FLAG_WORDS], copy: T *)

\* T::default() of the carried payload: nothing stashed
PayloadDefault == [growing |-> FALSE, ok |-> FALSE, pos |-> 0]

\* RecursiveInfo::new
RecursiveInfo_new == [flag |-> [w \in 0 .. (flagWords - 1) |-> Zero64], copy |-> PayloadDefault]

\* the bounds check of the indexing self.flag[upper]
IndexInBounds(self, upper) == upper \in DOMAIN self.flag

check_flag_never(self, id) == FALSE

\* RecursiveInfo::check_flag
check_flag(self, id) ==
    LET upper == id \div WordBits
        lower == id % WordBits
    IN  BitAnd(Shr(self.flag[upper], lower), One64) = One64

set_flag_word0(self, id) ==
    LET lower == id % WordBits
    IN  [self EXCEPT !.flag[0] = BitOr(BitAnd(self.flag[0], BitNot(Shl1(lower))), Shl1(lower))]

\* RecursiveInfo::set_flag
set_flag(self, id) ==
    LET upper == id \div WordBits
        lower == id % WordBits
        val == Shl1(lower)
        mask == BitNot(Shl1(lower))
    IN  [self EXCEPT !.flag[upper] = BitOr(BitAnd(self.flag[upper], mask), val)]

clear_flags_none(self) == self

\* RecursiveInfo::clear_flags
clear_flags(self) == [self EXCEPT !.flag = [i \in DOMAIN self.flag |-> Zero64]]

\* RecursiveInfo::get_copy
get_copy(self) == self.copy

\* RecursiveInfo::set_copy
set_copy(self, copy) == [self EXCEPT !.copy = copy]

----------------------------------------------------------------------------
(* HasRecursiveInfo / HasRecursiveType *)

\* impl HasRecursiveInfo for RecursiveInfo: get_recursive_info (self.clone())
Info_get_recursive_info(self) == self

\* impl HasRecursiveInfo for RecursiveInfo: set_recursive_info
Info_set_recursive_info(self, newInfo) == newInfo

\* impl HasRecursiveType for LocatedSpan: get_value (self.fragment().clone())
get_value(s) == s.fragment

\* impl HasRecursiveInfo for LocatedSpan: get_recursive_info
get_recursive_info(s) == Info_get_recursive_info(s.extra)

set_recursive_info_keep(s, newInfo) == s

\* impl HasRecursiveInfo for LocatedSpan: set_recursive_info
set_recursive_info(s, newInfo) == [s EXCEPT !.extra = Info_set_recursive_info(s.extra, newInfo)]

----------------------------------------------------------------------------
(* RecursiveIndexes: indexes: HashMap<&'static str, usize>, next: usize *)

\* RecursiveIndexes::new
RecursiveIndexes_new == [indexes |-> << >>, next |-> 0]

\* the outcome of a call of get: the registry after it, and the id returned or a panic
GetResult(self, id, panicked) == [self |-> self, ret |-> id, panicked |-> panicked]

get_no_assert(self, key) ==
    IF key \in DOMAIN self.indexes
    THEN GetResult(self, self.indexes[key], FALSE)
    ELSE GetResult([indexes |-> self.indexes @@ (key :> self.next), next |-> self.next + 1],
                   self.next, FALSE)

get_assert_le(self, key) ==
    IF key \in DOMAIN self.indexes
    THEN GetResult(self, self.indexes[key], FALSE)
    ELSE IF ~(self.next <= Capacity)
         THEN GetResult(self, 0, TRUE)
         ELSE GetResult([indexes |-> self.indexes @@ (key :> self.next), next |-> self.next + 1],
                        self.next, FALSE)

get_always_insert(self, key) ==
    IF ~(self.next < Capacity)
    THEN GetResult(self, 0, TRUE)
    ELSE GetResult([indexes |-> (key :> self.next) @@ self.indexes, next |-> self.next + 1],
                   self.next, FALSE)

get_from_one(self, key) ==
    IF key \in DOMAIN self.indexes
    THEN GetResult(self, self.indexes[key], FALSE)
    ELSE IF ~(self.next + 1 < Capacity)
         THEN GetResult(self, 0, TRUE)
         ELSE GetResult([indexes |-> self.indexes @@ (key :> self.next + 1), next |-> self.next + 1],
                        self.next + 1, FALSE)

\* RecursiveIndexes::get
RecursiveIndexes_get(self, key) ==
    IF key \in DOMAIN self.indexes
    THEN GetResult(self, self.indexes[key], FALSE)
    ELSE LET new_index == self.next
         IN  IF ~(new_index < Capacity)
             THEN GetResult(self, 0, TRUE)
             ELSE GetResult([indexes |-> self.indexes @@ (key :> new_index),
                             next |-> self.next + 1],
                            new_index, FALSE)

----------------------------------------------------------------------------
(* RECURSIVE_STORAGE: thread_local! *)

Threads == 1 .. NumThreads
MainThread == CHOOSE t \in Threads : \A u \in Threads : t <= u

StorageSlot_static(t) == MainThread

\* the registry instance a thread's RECURSIVE_STORAGE.with(..) reaches: its own
StorageSlot(t) == t

NoCall == [thread |-> 0, key |-> 0, ret |-> 0, panicked |-> FALSE, fresh |-> FALSE, nextBefore |-> 0]

\* thread t runs RECURSIVE_STORAGE.with(|storage| storage.borrow_mut().get(key))
Get(t, key) ==
    LET r == RecursiveIndexes_get(storage[StorageSlot(t)], key)
        first == key \notin DOMAIN firstRet[t] /\ ~r.panicked
    IN  /\ storage' = [storage EXCEPT ![StorageSlot(t)] = r.self]
        /\ lastCall' = [thread |-> t, key |-> key, ret |-> r.ret, panicked |-> r.panicked,
                        fresh |-> key \notin DOMAIN firstRet[t],
                        nextBefore |-> Len(order[t])]
        /\ order' = [order EXCEPT ![t] = IF first THEN Append(@, key) ELSE @]
        /\ firstRet' = [firstRet EXCEPT ![t] = IF first THEN @ @@ (key :> r.ret) ELSE @]

----------------------------------------------------------------------------
(* Operations on a local RecursiveInfo and on a cursor *)

NoOp == [name |-> "none", arg |-> 0, result |-> FALSE, panicked |-> FALSE]

Snapshot == [info |-> info, span |-> span]

SetFlag_through(id) ==
    /\ pre' = Snapshot
    /\ sibling' = sibling
    /\ info' = set_flag(info, id)
    /\ span' = set_recursive_info(span, set_flag(info, id))
    /\ op' = [name |-> "set_flag", arg |-> id, result |-> FALSE, panicked |-> FALSE]

\* info.set_flag(id); indexing self.flag[upper] out of bounds panics
SetFlag(id) ==
    /\ pre' = Snapshot
    /\ UNCHANGED <<span, sibling>>
    /\ IF IndexInBounds(info, id \div WordBits)
       THEN /\ info' = set_flag(info, id)
            /\ op' = [name |-> "set_flag", arg |-> id, result |-> FALSE, panicked |-> FALSE]
       ELSE /\ info' = info
            /\ op' = [name |-> "set_flag", arg |-> id, result |-> FALSE, panicked |-> TRUE]

\* info.check_flag(id); indexing self.flag[upper] out of bounds panics
CheckFlag(id) ==
    /\ pre' = Snapshot
    /\ UNCHANGED <<info, span, sibling>>
    /\ IF IndexInBounds(info, id \div WordBits)
       THEN op' = [name |-> "check_flag", arg |-> id, result |-> check_flag(info, id),
                   panicked |-> FALSE]
       ELSE op' = [name |-> "check_flag", arg |-> id, result |-> FALSE, panicked |-> TRUE]

----------------------------------------------------------------------------
(* The registry of one thread, up to its capacity, and the use of the ids it issues *)

InitialSpan == [offset |-> 0, fragment |-> << >>, extra |-> RecursiveInfo_new]

\* no result is pending
NoRet == [state |-> "none", s |-> InitialSpan, from |-> "", entry |-> InitialSpan]

RegistryFresh ==
    /\ storage = [t \in Threads |-> RecursiveIndexes_new]
    /\ order = [t \in Threads |-> << >>]
    /\ firstRet = [t \in Threads |-> << >>]
    /\ lastCall = NoCall
    /\ free = 0

\* no cursor operation is under way
FlagsIdle ==
    /\ info = RecursiveInfo_new
    /\ span = InitialSpan
    /\ sibling = InitialSpan
    /\ pre = Snapshot
    /\ op = NoOp
    /\ nOps = 0

\* no parse is under way
GuardIdle ==
    /\ input = << >>
    /\ stack = << >>
    /\ ret = NoRet
    /\ status = "returned"
    /\ events = {}

RegistryInit ==
    /\ flagWords \in FlagWordsConfigs
    /\ RegistryFresh
    /\ FlagsIdle
    /\ GuardIdle

\* keys are the rule names; the rules are numbered 1, 2, ...
NextKey == storage[MainThread].next + 1
FreeKeys == {k \in (NextKey - KeyWindow) .. (NextKey + KeyWindow - 1) : k >= 1}

\* the rules are first called in the order of their numbers
GetInOrder ==
    /\ free = 0
    /\ info = RecursiveInfo_new /\ op = NoOp
    /\ Get(MainThread, NextKey)
    /\ UNCHANGED <<guardVars, flagWords, free, flagVars>>

\* a rule near the last registered one is called, registered or not
GetFree ==
    /\ free < MaxFree
    /\ info = RecursiveInfo_new /\ op = NoOp
    /\ \E key \in FreeKeys : Get(MainThread, key)
    /\ free' = free + 1
    /\ UNCHANGED <<guardVars, flagWords, flagVars>>

IssuedId == lastCall.thread # 0 /\ ~lastCall.panicked

\* a parse starts: RecursiveInfo::new()
NewInfo ==
    /\ info # RecursiveInfo_new \/ op # NoOp
    /\ info' = RecursiveInfo_new
    /\ pre' = [info |-> RecursiveInfo_new, span |-> span]
    /\ op' = NoOp
    /\ UNCHANGED <<guardVars, flagWords, regVars, span, sibling, nOps>>

\* the caller of get tests the flag of the id it was given
CheckIssued ==
    /\ IssuedId
    /\ ~(op.name = "check_flag" /\ op.arg = lastCall.ret)
    /\ CheckFlag(lastCall.ret)
    /\ UNCHANGED <<guardVars, flagWords, regVars, nOps>>

\* the caller of get sets the flag of the id it was given, at the start of a parse
SetIssued ==
    /\ IssuedId
    /\ info = RecursiveInfo_new
    /\ SetFlag(lastCall.ret)
    /\ UNCHANGED <<guardVars, flagWords, regVars, nOps>>

RegistryNext == GetInOrder \/ GetFree \/ NewInfo \/ CheckIssued \/ SetIssued

RegistrySpec == RegistryInit /\ [][RegistryNext]_vars

----------------------------------------------------------------------------
(* The registries of several threads *)

ThreadKeys == 1 .. NumThreadKeys

ThreadsInit == RegistryInit

\* some thread looks some rule up
ThreadGet ==
    /\ \E t \in Threads : \E key \in ThreadKeys : Get(t, key)
    /\ UNCHANGED <<guardVars, flagWords, free, flagVars>>

ThreadsNext == ThreadGet

ThreadsSpec == ThreadsInit /\ [][ThreadsNext]_vars

----------------------------------------------------------------------------
(* RecursiveInfo and the cursor that carries it, as values *)

\* operations applied to one local RecursiveInfo and its cursor
MaxFlagOps == 2
\* ids this near to a word boundary are set at any time, the others as the last
\* operation, in the flag patterns
IdWindow == 1
\* the input the cursors point into
FlagsInput == <<"1">>

Ids == 0 .. (Capacity - 1)
NearBoundary(i) == i % WordBits < IdWindow \/ i % WordBits >= WordBits - IdWindow

Payloads == {PayloadDefault,
             [growing |-> TRUE, ok |-> FALSE, pos |-> 0],
             [growing |-> TRUE, ok |-> TRUE, pos |-> 1]}

\* flag arrays: no bit set, every bit set, every second bit set
Even64 == {b \in Bits : b % 2 = 0}
PatternInfos ==
    {[flag |-> [w \in 0 .. (flagWords - 1) |-> Zero64], copy |-> PayloadDefault],
     [flag |-> [w \in 0 .. (flagWords - 1) |-> Bits],
      copy |-> [growing |-> TRUE, ok |-> FALSE, pos |-> 0]],
     [flag |-> [w \in 0 .. (flagWords - 1) |-> IF w % 2 = 0 THEN Even64 ELSE Bits \ Even64],
      copy |-> [growing |-> TRUE, ok |-> TRUE, pos |-> 1]]}

\* the cursors of an input: what is left of it, and how much was consumed
Spans(text, extra) ==
    {[offset |-> n, fragment |-> SubSeq(text, n + 1, Len(text)), extra |-> extra] :
        n \in 0 .. Len(text)}

FlagsInit ==
    /\ flagWords \in FlagWordsConfigs
    /\ RegistryFresh
    /\ GuardIdle
    /\ info \in PatternInfos
    /\ \E e \in PatternInfos : span \in Spans(FlagsInput, e)
    /\ sibling = span
    /\ pre = Snapshot
    /\ op = NoOp
    /\ nOps = 0

Counted == nOps < MaxFlagOps /\ nOps' = nOps + 1

\* let mut info = s.get_recursive_info();
FGetInfo ==
    /\ Counted
    /\ pre' = Snapshot
    /\ info' = get_recursive_info(span)
    /\ op' = [name |-> "get_recursive_info", arg |-> 0, result |-> FALSE, panicked |-> FALSE]
    /\ UNCHANGED <<guardVars, flagWords, regVars, span, sibling>>

\* info.set_flag(id);
FSetFlag ==
    /\ Counted
    /\ \E id \in Ids :
          /\ NearBoundary(id) \/ (nOps = MaxFlagOps - 1 /\ info \in PatternInfos)
          /\ SetFlag(id)
    /\ UNCHANGED <<guardVars, flagWords, regVars>>

\* info.clear_flags();
FClearFlags ==
    /\ Counted
    /\ pre' = Snapshot
    /\ info' = clear_flags(info)
    /\ op' = [name |-> "clear_flags", arg |-> 0, result |-> FALSE, panicked |-> FALSE]
    /\ UNCHANGED <<guardVars, flagWords, regVars, span, sibling>>

\* info.set_copy(copy);
FSetCopy ==
    /\ Counted
    /\ pre' = Snapshot
    /\ \E c \in Payloads : info' = set_copy(info, c)
    /\ op' = [name |-> "set_copy", arg |-> 0, result |-> FALSE, panicked |-> FALSE]
    /\ UNCHANGED <<guardVars, flagWords, regVars, span, sibling>>

\* let s = s.set_recursive_info(info);
FSetInfo ==
    /\ Counted
    /\ pre' = Snapshot
    /\ span' = set_recursive_info(span, info)
    /\ op' = [name |-> "set_recursive_info", arg |-> 0, result |-> FALSE, panicked |-> FALSE]
    /\ UNCHANGED <<guardVars, flagWords, regVars, info, sibling>>

\* a choice clones the cursor it was given for its next alternative
FFork ==
    /\ Counted
    /\ sibling # span
    /\ pre' = Snapshot
    /\ sibling' = span
    /\ op' = [name |-> "clone", arg |-> 0, result |-> FALSE, panicked |-> FALSE]
    /\ UNCHANGED <<guardVars, flagWords, regVars, info, span>>

FlagsNext == FFork \/ FGetInfo \/ FSetFlag \/ FClearFlags \/ FSetCopy \/ FSetInfo

FlagsSpec == FlagsInit /\ [][FlagsNext]_vars

----------------------------------------------------------------------------
(* The parse of the crate's example (lib.rs, the crate documentation):      *)
(*     expr        = alt((expr_binary, term))                               *)
(*     expr_binary = expr '+' expr          under #[recursive_parser]       *)
(*     term        = '1'                                                    *)
(* The code #[recursive_parser] puts around expr_binary is in the crate     *)
(* nom_recursive_macros, not in lib.rs: the guard below follows section 4.2 *)
(* of the specification, built on RecursiveIndexes and RecursiveInfo of     *)
(* lib.rs. clear_flags is the one clearing operation RecursiveInfo has.     *)

\* the longest input
MaxLen == 5
\* the deepest call stack; a deeper call is a stack overflow
MaxDepth == 16
\* guarded rules other than expr_binary, entered around the call of expr
MaxOuter == 1

\* stringify!(expr_binary), the key of the guarded rule
ExprBinaryKey == 0
OuterKeys == 1 .. MaxOuter

Alphabet == {"1", "+"}
Inputs == UNION {[1 .. n -> Alphabet] : n \in 0 .. MaxLen}

Frame(kind, pc, s, best) == [kind |-> kind, pc |-> pc, s |-> s, best |-> best]

\* the provisional results of seed growing: no match yet, a match up to pos
Bottom == [growing |-> TRUE, ok |-> FALSE, pos |-> 0]
Best(pos) == [growing |-> TRUE, ok |-> TRUE, pos |-> pos]

Ok(s, from, entry) == [state |-> "ok", s |-> s, from |-> from, entry |-> entry]
Err(s, from, entry) == [state |-> "err", s |-> s, from |-> from, entry |-> entry]

\* nom's char(c): consumes c, the extra of the cursor carried along
nom_char(c, s) ==
    IF s.fragment # << >> /\ Head(s.fragment) = c
    THEN Ok([offset |-> s.offset + 1, fragment |-> Tail(s.fragment), extra |-> s.extra],
            "char", InitialSpan)
    ELSE Err(s, "char", InitialSpan)

\* the cursor s moved to the end of a provisional match
SeekTo(s, pos) ==
    [offset |-> pos, fragment |-> SubSeq(input, pos + 1, Len(input)), extra |-> s.extra]

Top == stack[Len(stack)]

\* the top frame, changed to caller, calls callee
Call(caller, callee) ==
    IF Len(stack) >= MaxDepth
    THEN /\ status' = "overflow"
         /\ UNCHANGED <<stack, ret>>
    ELSE /\ status' = "running"
         /\ stack' = Append([stack EXCEPT ![Len(stack)] = caller], callee)
         /\ ret' = NoRet

\* the top frame returns r to its caller
Return(r) ==
    /\ stack' = SubSeq(stack, 1, Len(stack) - 1)
    /\ ret' = r
    /\ status' = IF Len(stack) = 1 THEN "returned" ELSE "running"

Running(kind, pc) == status = "running" /\ Top.kind = kind /\ Top.pc = pc

GuardInit ==
    /\ flagWords \in FlagWordsConfigs
    /\ RegistryFresh
    /\ FlagsIdle
    /\ input \in Inputs
    /\ stack = <<Frame("expr", "start",
                       [offset |-> 0, fragment |-> input, extra |-> RecursiveInfo_new],
                       PayloadDefault)>>
    /\ ret = NoRet
    /\ status = "setup"
    /\ events = {}

\* another guarded rule was looked up in an earlier parse
OuterRegistered ==
    /\ status = "setup"
    /\ \E key \in OuterKeys : key \notin DOMAIN firstRet[MainThread] /\ Get(MainThread, key)
    /\ UNCHANGED <<flagWords, free, flagVars, guardVars>>

\* another guarded rule is entered at this position (its flag is set) and calls expr
OuterActive ==
    /\ status = "setup"
    /\ \E key \in OuterKeys : key \notin DOMAIN firstRet[MainThread] /\ Get(MainThread, key)
    /\ ~lastCall'.panicked
    /\ stack' = [stack EXCEPT ![1].s =
                    set_recursive_info(@, set_flag(get_recursive_info(@), lastCall'.ret))]
    /\ UNCHANGED <<flagWords, free, flagVars, input, ret, status, events>>

\* expr: alt((expr_binary, term))(s) tries expr_binary on a clone of s
ExprCall ==
    /\ status \in {"setup", "running"} /\ Top.kind = "expr" /\ Top.pc = "start"
    /\ Call([Top EXCEPT !.pc = "alt1"], Frame("expr_binary", "enter", Top.s, PayloadDefault))
    /\ UNCHANGED <<flagWords, regVars, flagVars, input, events>>

\* alt: the first alternative matched
ExprFirstOk ==
    /\ Running("expr", "alt1") /\ ret.state = "ok"
    /\ Return(Ok(ret.s, "expr", InitialSpan))
    /\ UNCHANGED <<flagWords, regVars, flagVars, input, events>>

\* alt: the first alternative failed; term is tried on the cursor alt was given
ExprSecond ==
    /\ Running("expr", "alt1") /\ ret.state = "err"
    /\ Call([Top EXCEPT !.pc = "alt2"], Frame("term", "enter", Top.s, PayloadDefault))
    /\ UNCHANGED <<flagWords, regVars, flagVars, input, events>>

\* alt: the result of the last alternative is the result
ExprSecondDone ==
    /\ Running("expr", "alt2") /\ ret.state # "none"
    /\ Return([ret EXCEPT !.from = "expr"])
    /\ UNCHANGED <<flagWords, regVars, flagVars, input, events>>

\* term: char('1')(s)
Term ==
    /\ Running("term", "enter")
    /\ Return(nom_char("1", Top.s))
    /\ UNCHANGED <<flagWords, regVars, flagVars, input, events>>

\* expr_binary's body: let (s, x) = expr(s)?;
BodyStart ==
    /\ Running("body", "b0")
    /\ Call([Top EXCEPT !.pc = "b1"], Frame("expr", "start", Top.s, PayloadDefault))
    /\ UNCHANGED <<flagWords, regVars, flagVars, input, events>>

\* expr_binary's body: the first expr failed
BodyLeftErr ==
    /\ Running("body", "b1") /\ ret.state = "err"
    /\ Return([ret EXCEPT !.from = "body"])
    /\ UNCHANGED <<flagWords, regVars, flagVars, input, events>>

\* expr_binary's body: let (s, y) = char('+')(s)?; fails
BodyPlusErr ==
    /\ Running("body", "b1") /\ ret.state = "ok"
    /\ nom_char("+", ret.s).state = "err"
    /\ Return([nom_char("+", ret.s) EXCEPT !.from = "body"])
    /\ UNCHANGED <<flagWords, regVars, flagVars, input, events>>

\* expr_binary's body: char('+') matched; let (s, z) = expr(s)?;
BodyRight ==
    /\ Running("body", "b1") /\ ret.state = "ok"
    /\ nom_char("+", ret.s).state = "ok"
    /\ Call([Top EXCEPT !.pc = "b2"],
            Frame("expr", "start", nom_char("+", ret.s).s, PayloadDefault))
    /\ UNCHANGED <<flagWords, regVars, flagVars, input, events>>

\* expr_binary's body: Ok((s, ret)), or the second expr's failure
BodyDone ==
    /\ Running("body", "b2") /\ ret.state # "none"
    /\ Return([ret EXCEPT !.from = "body"])
    /\ UNCHANGED <<flagWords, regVars, flagVars, input, events>>

\* the guard looks its rule up (4.2 step 1) and reads the flags of the cursor
GuardLookup ==
    /\ Running("expr_binary", "enter")
    /\ Get(MainThread, ExprBinaryKey)
    /\ ~lastCall'.panicked
    /\ UNCHANGED <<flagWords, free, flagVars, input>>

\* 4.2 step 2: the flag is not set; it is set and the body is evaluated
GuardEnterPlain ==
    /\ GuardLookup
    /\ LET cur == get_recursive_info(Top.s)
           id == lastCall'.ret
       IN  /\ ~check_flag(cur, id)
           /\ Call([Top EXCEPT !.pc = "plain"],
                   Frame("body", "b0", set_recursive_info(Top.s, set_flag(cur, id)),
                         PayloadDefault))
    /\ events' = events

\* 4.2 step 3: the flag is set and no seed is growing; the seed is the bottom
\* result, stashed in the payload, and the body is evaluated with the flag set
GuardEnterSeed ==
    /\ GuardLookup
    /\ LET cur == get_recursive_info(Top.s)
           id == lastCall'.ret
       IN  /\ check_flag(cur, id)
           /\ ~get_copy(cur).growing
           /\ Call([Top EXCEPT !.pc = "grow", !.best = Bottom],
                   Frame("body", "b0", set_recursive_info(Top.s, set_copy(cur, Bottom)),
                         PayloadDefault))
    /\ events' = events \cup {"seed"}

\* 4.2 step 3: the flag is set while a seed grows; the call yields the best so far
GuardEnterShort ==
    /\ GuardLookup
    /\ LET cur == get_recursive_info(Top.s)
           id == lastCall'.ret
           best == get_copy(cur)
       IN  /\ check_flag(cur, id)
           /\ best.growing
           /\ Return(IF best.ok
                     THEN Ok(SeekTo(Top.s, best.pos), "short", InitialSpan)
                     ELSE Err(Top.s, "short", InitialSpan))
    /\ events' = events \cup {"short"}

\* 4.2 step 2: whatever the outcome, the flag is cleared on the resulting cursor
GuardPlainReturn ==
    /\ Running("expr_binary", "plain") /\ ret.state # "none"
    /\ Return([state |-> ret.state,
               s |-> set_recursive_info(ret.s, clear_flags(get_recursive_info(ret.s))),
               from |-> "plain",
               entry |-> Top.s])
    /\ events' = events \cup {IF ret.state = "ok" THEN "plain_ok" ELSE "plain_err"}
    /\ UNCHANGED <<flagWords, regVars, flagVars, input>>

\* where the best result so far ends; the bottom result has length zero
BestEnd(frame) == IF frame.best.ok THEN frame.best.pos ELSE frame.s.offset

\* 4.2 step 3: the body matched more than the best so far; it is the new best
GuardGrow ==
    /\ Running("expr_binary", "grow") /\ ret.state = "ok"
    /\ ret.s.offset > BestEnd(Top)
    /\ LET best == Best(ret.s.offset)
       IN  Call([Top EXCEPT !.best = best],
                Frame("body", "b0",
                      set_recursive_info(Top.s, set_copy(get_recursive_info(Top.s), best)),
                      PayloadDefault))
    /\ events' = events \cup {"grow"}
    /\ UNCHANGED <<flagWords, regVars, flagVars, input>>

\* 4.2 step 3: the body failed or did not grow; the flag is cleared and the
\* best result is the result
GuardConverge ==
    /\ Running("expr_binary", "grow") /\ ret.state # "none"
    /\ ~(ret.state = "ok" /\ ret.s.offset > BestEnd(Top))
    /\ LET cleared == clear_flags(get_recursive_info(Top.s))
       IN  Return(IF Top.best.ok
                  THEN Ok(set_recursive_info(SeekTo(Top.s, Top.best.pos), cleared),
                          "grow", InitialSpan)
                  ELSE Err(set_recursive_info(Top.s, cleared), "grow", InitialSpan))
    /\ UNCHANGED <<flagWords, regVars, flagVars, input, events>>

GuardNext ==
    \/ OuterRegistered \/ OuterActive
    \/ ExprCall \/ ExprFirstOk \/ ExprSecond \/ ExprSecondDone
    \/ Term
    \/ BodyStart \/ BodyLeftErr \/ BodyPlusErr \/ BodyRight \/ BodyDone
    \/ GuardEnterPlain \/ GuardEnterSeed \/ GuardEnterShort
    \/ GuardPlainReturn \/ GuardGrow \/ GuardConverge

GuardSpec == GuardInit /\ [][GuardNext]_vars

\* a parser function that can take a step does: the parse is a chain of calls
GuardFairSpec == GuardSpec /\ WF_vars(GuardNext)

----------------------------------------------------------------------------
(* Properties of the registry *)

Range(f) == {f[x] : x \in DOMAIN f}
Injective(f) == Cardinality(Range(f)) = Cardinality(DOMAIN f)

\* C1: every call of get for a key returns the id the first call for that key
\* returned (the last call did, and so would a call for any key looked up
\* before), and two distinct keys never have the same id.
IdStability ==
    \A t \in Threads :
        /\ (lastCall.thread = t /\ ~lastCall.panicked)
              => lastCall.ret = firstRet[t][lastCall.key]
        /\ \A k \in DOMAIN firstRet[t] :
              LET r == RecursiveIndexes_get(storage[t], k)
              IN  ~r.panicked /\ r.ret = firstRet[t][k] /\ r.self.next = storage[t].next
        /\ Injective(firstRet[t])

\* a key that was first seen out of the order of the numbering is looked up again
IdStabilityWitness ==
    /\ lastCall.thread = MainThread
    /\ ~lastCall.fresh /\ ~lastCall.panicked
    /\ Len(order[MainThread]) >= 3
    /\ lastCall.key # lastCall.ret + 1

\* C2: with Capacity identities registered, get for one more identity panics
\* and leaves the registry as it was; a call that returns never returns an id
\* another identity holds.
CapacityFatal ==
    /\ (lastCall.thread # 0 /\ lastCall.fresh /\ lastCall.nextBefore >= Capacity)
          => /\ lastCall.panicked
             /\ lastCall.key \notin DOMAIN storage[lastCall.thread].indexes
             /\ storage[lastCall.thread].next = lastCall.nextBefore
    /\ (lastCall.thread # 0 /\ ~lastCall.panicked)
          => \A k \in DOMAIN storage[lastCall.thread].indexes :
                k # lastCall.key => storage[lastCall.thread].indexes[k] # lastCall.ret

\* the 65th distinct identity is looked up in the 64-bit configuration
CapacityFatalWitness ==
    /\ flagWords = 1
    /\ lastCall.thread = MainThread
    /\ lastCall.panicked /\ lastCall.fresh
    /\ Len(order[MainThread]) = WordBits
    /\ Cardinality(DOMAIN storage[MainThread].indexes) = WordBits

\* C7: the k-th distinct identity looked up has id k-1, the assigned ids are
\* 0..next-1 with next the number of registered identities, an identity keeps
\* the id it was first given, and next never exceeds the capacity.
FirstSeenOrder ==
    \A t \in Threads :
        LET reg == storage[t]
            o == order[t]
        IN  /\ \A i \in 1 .. Len(o) : o[i] \in DOMAIN reg.indexes /\ reg.indexes[o[i]] = i - 1
            /\ DOMAIN reg.indexes = Range(o)
            /\ Range(reg.indexes) = 0 .. (reg.next - 1)
            /\ reg.next = Cardinality(DOMAIN reg.indexes)
            /\ reg.next = Len(o)
            /\ \A k \in DOMAIN firstRet[t] : k \in DOMAIN reg.indexes /\ reg.indexes[k] = firstRet[t][k]
            /\ reg.next <= Capacity

\* a full registry whose identities were not first seen in the order of their numbers
FirstSeenOrderWitness ==
    /\ storage[MainThread].next = Capacity
    /\ \E i \in 1 .. Len(order[MainThread]) : order[MainThread][i] # i
    /\ lastCall.fresh /\ ~lastCall.panicked

\* C10: every id get returns is below RECURSIVE_FLAG_WORDS * 64, so check_flag
\* and set_flag with an id the registry issued index inside the flag array
\* and never panic.
IssuedIdInBounds ==
    /\ (lastCall.thread # 0 /\ ~lastCall.panicked)
          => /\ lastCall.ret >= 0 /\ lastCall.ret < Capacity
             /\ IndexInBounds(info, lastCall.ret \div WordBits)
    /\ ~op.panicked
    /\ DOMAIN info.flag = 0 .. (flagWords - 1)

\* the last id of the 256-bit configuration is issued and its flag is set
IssuedIdInBoundsWitness ==
    /\ flagWords = 4
    /\ IssuedId /\ lastCall.ret = Capacity - 1
    /\ op.name = "set_flag" /\ op.arg = lastCall.ret
    /\ check_flag(info, lastCall.ret)

\* C8: a lookup by one thread leaves the registry of every other thread as it
\* was, and the id it returns is the one the calling thread's own earlier
\* lookups determine: the id first given for a key seen before, else the
\* number of keys that thread has registered.
ThreadIsolation ==
    [][lastCall' # lastCall =>
          LET t == lastCall'.thread
              key == lastCall'.key
          IN  /\ \A u \in Threads \ {t} : storage'[u] = storage[u]
              /\ lastCall'.panicked = (key \notin DOMAIN firstRet[t] /\ Len(order[t]) >= Capacity)
              /\ ~lastCall'.panicked =>
                    lastCall'.ret = IF key \in DOMAIN firstRet[t]
                                    THEN firstRet[t][key]
                                    ELSE Len(order[t])
              /\ storage'[t].next = Len(order'[t])]_vars

\* the same identity has different ids in two threads
ThreadIsolationWitness ==
    \E t, u \in Threads : \E k \in DOMAIN firstRet[t] \cap DOMAIN firstRet[u] :
        /\ firstRet[t][k] # firstRet[u][k]
        /\ storage[t].indexes[k] # storage[u].indexes[k]
        /\ storage[t].next # storage[u].next

----------------------------------------------------------------------------
(* Properties of RecursiveInfo and of the cursor *)

\* C5: after set_flag(i), check_flag(i) is true, check_flag(j) is what it was
\* for every other j below the capacity, and the carried payload is unchanged.
SetFlagFrame ==
    (op.name = "set_flag" /\ ~op.panicked)
        => /\ check_flag(info, op.arg)
           /\ \A j \in Ids \ {op.arg} : check_flag(info, j) = check_flag(pre.info, j)
           /\ get_copy(info) = get_copy(pre.info)

\* a flag of a later word is set while flags of its own and of another word
\* are set, others are clear, and a payload is carried
SetFlagFrameWitness ==
    /\ op.name = "set_flag" /\ op.arg >= WordBits
    /\ get_copy(info) # PayloadDefault
    /\ ~check_flag(pre.info, op.arg)
    /\ \E j \in Ids : j \div WordBits = op.arg \div WordBits /\ j # op.arg /\ check_flag(info, j)
    /\ \E k \in Ids : k \div WordBits # op.arg \div WordBits /\ check_flag(info, k)
    /\ \E j \in Ids : ~check_flag(info, j)

\* C9: set_recursive_info(s, info).get_recursive_info() is info, flags and
\* payload, for a RecursiveInfo and for a LocatedSpan, and the span's fragment
\* and position are the ones it had.
InfoRoundTrip ==
    (op.name = "set_recursive_info")
        => /\ get_recursive_info(span) = info
           /\ Info_get_recursive_info(Info_set_recursive_info(pre.span.extra, info)) = info
           /\ get_value(span) = get_value(pre.span)
           /\ span.offset = pre.span.offset
           /\ info = pre.info

\* a cursor with input left is given flags and a payload it did not have
InfoRoundTripWitness ==
    /\ op.name = "set_recursive_info"
    /\ get_value(span) # << >>
    /\ info.flag # pre.span.extra.flag
    /\ info.copy # pre.span.extra.copy

\* C6: set_flag, clear_flags and set_copy on a RecursiveInfo obtained through
\* get_recursive_info change neither the cursor it was read from nor the
\* clone of it kept for the next alternative; only set_recursive_info changes
\* a cursor, and only the one it is applied to.
NonContamination ==
    [][/\ op'.name \in {"get_recursive_info", "set_flag", "clear_flags", "set_copy"}
          => span' = span /\ sibling' = sibling
       /\ op'.name = "set_recursive_info" => sibling' = sibling
       /\ op'.name = "clone" => span' = span /\ sibling' = span
       /\ span' # span => op'.name = "set_recursive_info"]_vars

\* the local copy's flags were changed while the cursor and its clone kept theirs
NonContaminationWitness ==
    /\ op.name \in {"set_flag", "clear_flags"}
    /\ pre.info = get_recursive_info(span)
    /\ info.flag # get_recursive_info(span).flag
    /\ sibling = span

----------------------------------------------------------------------------
(* Properties of the guarded parse *)

\* the id the registry gave expr_binary
ExprBinaryId == storage[MainThread].indexes[ExprBinaryKey]

PlainFrame(i) == stack[i].kind = "expr_binary" /\ stack[i].pc = "plain"

\* C3: the guarded parse of the left-recursive example grammar returns, with
\* success or failure, on every input; the call stack never overflows.
Termination == <>(status = "returned")

\* an input of five characters was consumed whole by a parse in which the
\* rule was re-entered, a seed grew and an inner call was cut short
TerminationWitness ==
    /\ status = "returned"
    /\ {"seed", "grow", "short", "plain_ok"} \subseteq events
    /\ ret.state = "ok"
    /\ Len(input) >= 5 /\ ret.s.offset = Len(input)

====
